---- MODULE Spec2Model ----
(***************************************************************************)
(* Model of the security_cam lambda handlers (presign.py, notify.py,      *)
(* list.py, manage.py) and of the S3 bucket / SES service they share.     *)
(*                                                                         *)
(* Python strings are TLA+ strings; Len, SubSeq and \o work on them.      *)
(* Every S3 / SES call is one step of its handler, so that invocations of *)
(* different handlers and the device's uploads interleave call by call.   *)
(***************************************************************************)
EXTENDS Integers, Sequences, FiniteSets, TLC

VARIABLES
    exists,     \* bucket: the set of keys that hold an object
    tags,       \* bucket: key -> tag set (a set of [Key, Value] records)
    puts,       \* number of device uploads so far
    mPc,        \* manage.handler: position
    mReq,       \* manage.handler: the request body being handled
    mObjects,   \* manage.delete_clip: the local list `objects`
    mCalls,     \* manage.handler: storage calls made by this invocation
    mResp,      \* manage.handler: the response (or the exception that escaped)
    mCount,     \* number of manage invocations so far
    outbox,     \* SES: the emails sent so far
    nPc,        \* notify.handler: position
    nBatch,     \* notify.handler: event['Records'], as the raw object keys
    nIdx,       \* notify.handler: index of the record the loop is at
    nCalls,     \* notify.handler: service calls made by this invocation
    nCount,     \* number of notify invocations so far
    pReq,       \* presign.handler: the request last handled
    pResp,      \* presign.handler: its response
    pUrls,      \* presign.handler: the presigned URLs in that response
    meta,       \* bucket: key -> [Size, LastModified] of the object
    lPc,        \* list.handler: position
    lToken,     \* list.handler: paginator, the last key of the pages read so far
    lMore,      \* list.handler: paginator, IsTruncated of the page last read
    lPage,      \* list.handler: page['Contents'] of the page last read
    lPos,       \* list.handler: index of the object the inner loop is at
    lThumb,     \* list.handler: the local thumb_url
    lCall,      \* list.handler: the storage call last made, with its result
    lClips,     \* list.handler: the local list `clips`
    lResp,      \* list.handler: the response status
    lBody,      \* list.handler: the response body, the sorted records
    lDirty,     \* whether the bucket changed since this listing began
    lCount      \* number of list invocations so far

bucketVars == <<exists, tags>>
manageVars == <<mPc, mReq, mObjects, mCalls, mResp, mCount>>
notifyVars == <<outbox, nPc, nBatch, nIdx, nCalls, nCount>>
presignVars == <<pReq, pResp, pUrls>>
listLocals == <<lPc, lToken, lMore, lPage, lPos, lThumb, lCall, lClips, lResp, lBody, lCount>>
listVars == <<listLocals, lDirty>>
handlerVars == <<manageVars, notifyVars, presignVars, listVars>>
vars == <<exists, tags, meta, puts, handlerVars>>

-----------------------------------------------------------------------------
(* Bounds *)

MaxManage == 2      \* manage invocations in one behaviour
MaxPuts == 2        \* device uploads in one behaviour
MaxNotify == 1      \* notify invocations in one behaviour
MaxBatch == 2       \* records in one notification batch
MaxList == 1        \* list invocations in one behaviour
MaxListPuts == 1    \* device uploads during the listings of one behaviour
PageSize == 2       \* keys per listing page (1000 in list.py)
MaxRacePuts == 1    \* device uploads while manage and notify race on a clip

-----------------------------------------------------------------------------
(* Python string primitives *)

Min(a, b) == IF a < b THEN a ELSE b
Max(a, b) == IF a > b THEN a ELSE b

\* s[a:-b] for a, b >= 0 (b > 0): Python clamps both ends and yields '' when
\* the start is not before the stop.
SliceFromTo(s, a, b) ==
    LET start == Min(a, Len(s))
        stop  == Max(Len(s) - b, 0)
    IN  IF start < stop THEN SubSeq(s, start + 1, stop) ELSE ""

StartsWith(s, p) == Len(s) >= Len(p) /\ SubSeq(s, 1, Len(p)) = p
EndsWith(s, p) == Len(s) >= Len(p) /\ SubSeq(s, Len(s) - Len(p) + 1, Len(s)) = p

-----------------------------------------------------------------------------
(* The bucket (S3) *)

\* the keys the handlers of manage.py and notify.py are exercised on
CoreKeys == {"clips/a.avi", "thumbs/a_thumb.jpg", "clips/b.avi", "thumbs/b_thumb.jpg"}
\* the keys list.py is exercised on
ListKeys ==
    {"clips/a.avi", "clips/b.avi", "clips/c_20260221_120000.avi", "clips/n.txt",
     "thumbs/a_thumb.jpg"}
\* clips list.py is exercised on for their names: a timestamp, no timestamp,
\* month 13, and 29 February of a year that is not a leap year
NameKeys ==
    {"clips/cam1_20260221_120000.avi", "clips/cam1_bad_data.avi",
     "clips/d_20261321_120000.avi", "clips/e_20260229_120000.avi"}
\* basenames the two derivations of the thumbnail key are exercised on: the
\* device's naming, an empty name, and a name that repeats the affixes
PairBasenames == {"cam1_20260221_120000", "", "clips/x.avi"}
PairKeys ==
    {"clips/" \o b \o ".avi" : b \in PairBasenames}
        \cup {"thumbs/" \o b \o "_thumb.jpg" : b \in PairBasenames}
Keys == CoreKeys \cup ListKeys \cup NameKeys \cup PairKeys

Tag(k, v) == [Key |-> k, Value |-> v]
NoTags == [k \in Keys |-> {}]

\* a datetime, as S3 reports LastModified (whole seconds, UTC)
DateTime(y, mo, d, h, mi, sec) ==
    [year |-> y, month |-> mo, day |-> d, hour |-> h, minute |-> mi, second |-> sec]
Meta(size, modified) == [Size |-> size, LastModified |-> modified]
NoMeta == Meta(0, DateTime(1970, 1, 1, 0, 0, 0))
FirstUpload == Meta(131072, DateTime(2026, 2, 20, 9, 5, 7))
Uploads == {Meta(9856614, DateTime(2026, 3, 1, 18, 30, 0))}

\* ghost: a step that alters the bucket marks the listing in progress as dirty
MarkDirty == lDirty' = (lDirty \/ exists' # exists \/ tags' # tags \/ meta' # meta)

\* The device PUTs a clip or a thumbnail through a presigned URL: the object
\* is created or replaced, and a replaced object loses its tags.
DevicePut(k, m) ==
    /\ puts < MaxPuts
    /\ puts' = puts + 1
    /\ exists' = exists \cup {k}
    /\ tags' = [tags EXCEPT ![k] = {}]
    /\ meta' = [meta EXCEPT ![k] = m]
    /\ MarkDirty
    /\ UNCHANGED <<manageVars, notifyVars, presignVars, listLocals>>

-----------------------------------------------------------------------------
(* manage.py *)

\* JSON values of the request body's fields
Null == [t |-> "null", s |-> ""]
Str(s) == [t |-> "str", s |-> s]
Num == [t |-> "num", s |-> "123"]      \* a non-zero JSON number

\* Python truthiness: None and '' are falsy, a non-zero number is truthy
Truthy(v) == (v.t = "str" /\ v.s # "") \/ v.t = "num"

\* event['body']: absent (-> '{}'), not JSON, JSON that is no object, or an
\* object whose action / clip_key are as given (Null when the field is absent)
Body(kind, action, clip_key) == [kind |-> kind, action |-> action, clip_key |-> clip_key]
NoBody == Body("absent", Null, Null)

ActionValues == {Null, Str(""), Str("keep"), Str("unkeep"), Str("delete"), Str("purge"), Num}
ClipKeyValues ==
    {Null, Str(""), Str("clips/a.avi"), Str("clips/b.avi"), Str("clips/.avi"),
     Str("notes.txt"), Str("clips/n.txt"), Str("a.avi"), Num}
Bodies ==
    {NoBody, Body("invalid", Null, Null), Body("nonobject", Null, Null)}
    \cup {Body("object", a, k) : a \in ActionValues, k \in ClipKeyValues}

Response(code, text) == [statusCode |-> code, body |-> text]
NoResponse == Response(0, "")
\* an exception that escapes the handler: the invocation fails, nothing is returned
Unhandled(exc) == Response(-1, exc)
Proceed == Response(1, "")

\* (mutant) the extension stays in the thumbnail's name
thumb_key_KeepsExt(clip_key) ==
    "thumbs/" \o SliceFromTo(clip_key, Len("clips/"), 0) \o "_thumb.jpg"

thumb_key(clip_key) ==
    LET name == SliceFromTo(clip_key, Len("clips/"), Len(".avi"))
    IN  "thumbs/" \o name \o "_thumb.jpg"

\* handler, lines 59-70 and the dispatch's else branch (line 83): what the
\* handler answers before any storage call, or Proceed.
Validate(body) ==
    IF body.kind = "invalid" THEN Response(400, "Invalid JSON body")
    ELSE IF body.kind = "nonobject" THEN Unhandled("AttributeError")
    ELSE IF ~Truthy(body.action) \/ ~Truthy(body.clip_key)
        THEN Response(400, "Missing action or clip_key")
    ELSE IF body.clip_key.t # "str" THEN Unhandled("AttributeError")
    ELSE IF ~StartsWith(body.clip_key.s, "clips/") \/ ~EndsWith(body.clip_key.s, ".avi")
        THEN Response(400, "clip_key must be clips/*.avi")
    ELSE IF body.action \notin {Str("keep"), Str("unkeep"), Str("delete")}
        THEN Response(400, "Unknown action")
    ELSE Proceed

Call(op, keys, result) == [op |-> op, keys |-> keys, result |-> result]

ManageInvoke(body) ==
    /\ mPc = "idle"
    /\ mCount < MaxManage
    /\ mCount' = mCount + 1
    /\ mReq' = body
    /\ mCalls' = <<>>
    /\ mObjects' = <<>>
    /\ LET r == Validate(body)
       IN  IF r # Proceed
           THEN mResp' = r /\ mPc' = "done"
           ELSE /\ mResp' = NoResponse
                /\ mPc' = IF body.action = Str("delete") THEN "head_object"
                          ELSE "put_object_tagging"
    /\ UNCHANGED <<exists, tags, puts, notifyVars, presignVars, listVars, meta>>

\* (mutant) unkeep writes 'true' as keep does
KeepValue_AlwaysTrue(action) == "true"

\* set_keep_tag, called with 'true' for keep and 'false' for unkeep
KeepValue(action) == IF action = Str("keep") THEN "true" ELSE "false"

\* (mutant) tagging a key that has no object creates one
ManageSetKeepTag_Creates(ok) ==
    /\ mPc = "put_object_tagging"
    /\ LET key == mReq.clip_key.s
       IN  /\ exists' = IF ok THEN exists \cup {key} ELSE exists
           /\ tags' = IF ok
                      THEN [tags EXCEPT ![key] = {Tag("keep", KeepValue(mReq.action))}]
                      ELSE tags
           /\ mCalls' = Append(mCalls, Call("put_object_tagging", <<key>>,
                                            IF ok THEN "ok" ELSE "ClientError"))
           /\ mResp' = IF ok THEN Response(200, "ok") ELSE Response(500, "ClientError")
    /\ mPc' = "done"
    /\ UNCHANGED <<puts, mReq, mObjects, mCount, notifyVars, presignVars, listLocals, meta>>
    /\ MarkDirty

\* (mutant) the tag is added to the tags the object has
ManageSetKeepTag_Merge(ok) ==
    /\ mPc = "put_object_tagging"
    /\ LET key == mReq.clip_key.s
           done == ok /\ key \in exists
       IN  /\ tags' = IF done
                      THEN [tags EXCEPT ![key] = @ \cup {Tag("keep", KeepValue(mReq.action))}]
                      ELSE tags
           /\ mCalls' = Append(mCalls, Call("put_object_tagging", <<key>>,
                                            IF done THEN "ok" ELSE "ClientError"))
           /\ mResp' = IF done THEN Response(200, "ok") ELSE Response(500, "ClientError")
    /\ mPc' = "done"
    /\ UNCHANGED <<exists, puts, mReq, mObjects, mCount, notifyVars, presignVars, listLocals, meta>>
    /\ MarkDirty

\* set_keep_tag, lines 32-39: one put_object_tagging with the TagSet [keep=value]
ManageSetKeepTag(ok) ==
    /\ mPc = "put_object_tagging"
    /\ LET key == mReq.clip_key.s
           done == ok /\ key \in exists
       IN  /\ tags' = IF done
                      THEN [tags EXCEPT ![key] = {Tag("keep", KeepValue(mReq.action))}]
                      ELSE tags
           /\ mCalls' = Append(mCalls, Call("put_object_tagging", <<key>>,
                                            IF done THEN "ok" ELSE "ClientError"))
           /\ mResp' = IF done THEN Response(200, "ok") ELSE Response(500, "ClientError")
    /\ mPc' = "done"
    /\ UNCHANGED <<exists, puts, mReq, mObjects, mCount, notifyVars, presignVars, listLocals, meta>>
    /\ MarkDirty

\* (mutant) the thumbnail is named in the delete whether the probe found it or not
ManageHeadObject_NoProbe(ok) ==
    /\ mPc = "head_object"
    /\ LET key == mReq.clip_key.s
           tk == thumb_key(key)
       IN  /\ mObjects' = <<key, tk>>
           /\ mCalls' = Append(mCalls, Call("head_object", <<tk>>,
                                 IF ok /\ tk \in exists THEN "ok"
                                 ELSE IF tk \in exists THEN "ClientError" ELSE "404"))
    /\ mPc' = "delete_objects"
    /\ UNCHANGED <<exists, tags, puts, mReq, mResp, mCount, notifyVars, presignVars, listVars, meta>>

\* delete_clip, lines 44-50: the existence probe of the thumbnail
ManageHeadObject(ok) ==
    /\ mPc = "head_object"
    /\ LET key == mReq.clip_key.s
           tk == thumb_key(key)
           found == ok /\ tk \in exists
       IN  /\ mObjects' = IF found THEN <<key, tk>> ELSE <<key>>
           /\ mCalls' = Append(mCalls, Call("head_object", <<tk>>,
                                 IF found THEN "ok"
                                 ELSE IF tk \in exists THEN "ClientError" ELSE "404"))
    /\ mPc' = "delete_objects"
    /\ UNCHANGED <<exists, tags, puts, mReq, mResp, mCount, notifyVars, presignVars, listVars, meta>>

Range(seq) == {seq[i] : i \in 1..Len(seq)}

\* delete_clip, lines 52-55, and the handler's return
ManageDeleteObjects(ok) ==
    /\ mPc = "delete_objects"
    /\ exists' = IF ok THEN exists \ Range(mObjects) ELSE exists
    /\ tags' = IF ok THEN [k \in Keys |-> IF k \in Range(mObjects) THEN {} ELSE tags[k]]
               ELSE tags
    /\ meta' = IF ok THEN [k \in Keys |-> IF k \in Range(mObjects) THEN NoMeta ELSE meta[k]]
               ELSE meta
    /\ mCalls' = Append(mCalls, Call("delete_objects", mObjects,
                                     IF ok THEN "ok" ELSE "ClientError"))
    /\ mResp' = IF ok THEN Response(200, "ok") ELSE Response(500, "ClientError")
    /\ mPc' = "done"
    /\ UNCHANGED <<puts, mReq, mObjects, mCount, notifyVars, presignVars, listLocals>>
    /\ MarkDirty

ManageReturn ==
    /\ mPc = "done"
    /\ mPc' = "idle"
    /\ mReq' = NoBody
    /\ mObjects' = <<>>
    /\ mCalls' = <<>>
    /\ mResp' = NoResponse
    /\ UNCHANGED <<exists, tags, puts, mCount, notifyVars, presignVars, listVars, meta>>


-----------------------------------------------------------------------------
(* notify.py *)

GET_EXPIRY == 7 * 24 * 3600
ALERT_EMAIL == "owner@example.com"

\* s3.generate_presigned_url: the URL carries the method, the key and the
\* expiry; it is computed locally from the credentials, no request is made
PresignedUrl(method, key, expiry) == [method |-> method, Key |-> key, ExpiresIn |-> expiry]

\* the percent escapes the model knows (urllib knows all 256)
HexTable == [h \in {"2E", "2e", "2F", "20", "2B", "5F"} |->
                CASE h \in {"2E", "2e"} -> "."
                  [] h = "2F" -> "/"
                  [] h = "20" -> " "
                  [] h = "2B" -> "+"
                  [] h = "5F" -> "_"]

RECURSIVE PlusToSpace(_)
PlusToSpace(s) ==
    IF s = "" THEN ""
    ELSE (IF SubSeq(s, 1, 1) = "+" THEN " " ELSE SubSeq(s, 1, 1))
         \o PlusToSpace(SubSeq(s, 2, Len(s)))

\* urllib.parse.unquote: %XX becomes the character, anything else stays
RECURSIVE Unquote(_)
Unquote(s) ==
    IF s = "" THEN ""
    ELSE IF SubSeq(s, 1, 1) = "%" /\ Len(s) >= 3 /\ SubSeq(s, 2, 3) \in DOMAIN HexTable
        THEN HexTable[SubSeq(s, 2, 3)] \o Unquote(SubSeq(s, 4, Len(s)))
    ELSE SubSeq(s, 1, 1) \o Unquote(SubSeq(s, 2, Len(s)))

\* urllib.parse.unquote_plus
unquote_plus(s) == Unquote(PlusToSpace(s))

\* s.split(sep)[-1]: what follows the last sep
RECURSIVE AfterLast(_, _)
AfterLast(s, sep) ==
    IF \E i \in 1..Len(s) : SubSeq(s, i, i) = sep
    THEN AfterLast(SubSeq(s, (CHOOSE i \in 1..Len(s) : SubSeq(s, i, i) = sep) + 1, Len(s)), sep)
    ELSE s

\* s.split(sep)[0]: what precedes the first sep
BeforeFirst(s, sep) ==
    IF \E i \in 1..Len(s) : SubSeq(s, i, i) = sep
    THEN LET first == CHOOSE i \in 1..Len(s) :
                        /\ SubSeq(s, i, i) = sep
                        /\ \A j \in 1..(i - 1) : SubSeq(s, j, j) # sep
         IN  SubSeq(s, 1, first - 1)
    ELSE s

\* the keys S3 may name in a notification, URL-escaped as S3 sends them
RawKeys == {"clips/a.avi", "clips/b.avi", "clips/a%2Eavi", "clips/n.txt", "clips/b+.avi"}

Batches == UNION {[1..n -> RawKeys] : n \in 0..MaxBatch}

\* (mutant) the filter looks at the raw key
Matches_Raw(raw) == EndsWith(raw, ".avi")

\* lines 24-27: the record's key, decoded, ends in '.avi'
Matches(raw) == EndsWith(unquote_plus(raw), ".avi")

\* lines 29-45: the alert for a clip
Email(key) ==
    LET clip_name == AfterLast(key, "/")
        device_id == BeforeFirst(clip_name, "_")
    IN  [Source |-> ALERT_EMAIL,
         To |-> ALERT_EMAIL,
         Subject |-> "Motion detected - " \o device_id,   \* an em dash in the source
         clip_name |-> clip_name,
         view_url |-> PresignedUrl("get_object", key, GET_EXPIRY)]

NotifyInvoke(batch) ==
    /\ nPc = "idle"
    /\ nCount < MaxNotify
    /\ nCount' = nCount + 1
    /\ nBatch' = batch
    /\ nIdx' = 1
    /\ nCalls' = <<>>
    /\ nPc' = "record"
    /\ UNCHANGED <<exists, tags, puts, outbox, manageVars, presignVars, listVars, meta>>

\* the head of the loop: the next record, skipped unless it matches
NotifyRecord ==
    /\ nPc = "record"
    /\ IF nIdx > Len(nBatch)
       THEN nPc' = "done" /\ nIdx' = nIdx
       ELSE IF Matches(nBatch[nIdx])
       THEN nPc' = "send_email" /\ nIdx' = nIdx
       ELSE nPc' = "record" /\ nIdx' = nIdx + 1
    /\ UNCHANGED <<exists, tags, puts, outbox, nBatch, nCalls, nCount, manageVars, presignVars, listVars, meta>>

\* lines 47-54: ses.send_email; its exception is not caught, so a failed send
\* ends the invocation
NotifySendEmail(ok) ==
    /\ nPc = "send_email"
    /\ LET key == unquote_plus(nBatch[nIdx])
       IN  /\ outbox' = IF ok THEN Append(outbox, Email(key)) ELSE outbox
           /\ nCalls' = Append(nCalls, Call("send_email", <<key>>,
                                        IF ok THEN "ok" ELSE "ClientError"))
           /\ nPc' = IF ok THEN "put_object_tagging" ELSE "raised"
    /\ UNCHANGED <<exists, tags, puts, nBatch, nIdx, nCount, manageVars, presignVars, listVars, meta>>

\* (mutant) a failed tag write escapes the handler
NotifyTag_Raise(ok) ==
    /\ nPc = "put_object_tagging"
    /\ LET key == unquote_plus(nBatch[nIdx])
           done == ok /\ key \in exists
       IN  /\ tags' = IF done THEN [tags EXCEPT ![key] = {Tag("keep", "false")}] ELSE tags
           /\ nCalls' = Append(nCalls, Call("put_object_tagging", <<key>>,
                                        IF done THEN "ok" ELSE "ClientError"))
           /\ nIdx' = IF done THEN nIdx + 1 ELSE nIdx
           /\ nPc' = IF done THEN "record" ELSE "raised"
    /\ UNCHANGED <<exists, puts, outbox, nBatch, nCount, manageVars, presignVars, listLocals, meta>>
    /\ MarkDirty

\* (mutant) the thumbnail is tagged along with the clip
NotifyTag_WithThumb(ok) ==
    /\ nPc = "put_object_tagging"
    /\ LET key == unquote_plus(nBatch[nIdx])
           tk == thumb_key(key)
           done == ok /\ key \in exists
       IN  /\ tags' = IF done
                      THEN [k \in Keys |->
                              IF k = key \/ (k = tk /\ tk \in exists)
                              THEN {Tag("keep", "false")} ELSE tags[k]]
                      ELSE tags
           /\ nCalls' = Append(nCalls, Call("put_object_tagging", <<key>>,
                                        IF done THEN "ok" ELSE "ClientError"))
    /\ nIdx' = nIdx + 1
    /\ nPc' = "record"
    /\ UNCHANGED <<exists, puts, outbox, nBatch, nCount, manageVars, presignVars, listLocals, meta>>
    /\ MarkDirty

\* lines 63-71: the keep=false tag write; any exception is printed and dropped
NotifyTag(ok) ==
    /\ nPc = "put_object_tagging"
    /\ LET key == unquote_plus(nBatch[nIdx])
           done == ok /\ key \in exists
       IN  /\ tags' = IF done THEN [tags EXCEPT ![key] = {Tag("keep", "false")}] ELSE tags
           /\ nCalls' = Append(nCalls, Call("put_object_tagging", <<key>>,
                                        IF done THEN "ok" ELSE "ClientError"))
    /\ nIdx' = nIdx + 1
    /\ nPc' = "record"
    /\ UNCHANGED <<exists, puts, outbox, nBatch, nCount, manageVars, presignVars, listLocals, meta>>
    /\ MarkDirty

\* the invocation is over (returned, or failed with the escaped exception)
NotifyReturn ==
    /\ nPc \in {"done", "raised"}
    /\ nPc' = "idle"
    /\ nBatch' = <<>>
    /\ nIdx' = 1
    /\ nCalls' = <<>>
    /\ UNCHANGED <<exists, tags, puts, outbox, nCount, manageVars, presignVars, listVars, meta>>

InitNotify ==
    /\ outbox = <<>>
    /\ nPc = "idle"
    /\ nBatch = <<>>
    /\ nIdx = 1
    /\ nCalls = <<>>
    /\ nCount = 0

-----------------------------------------------------------------------------
(* presign.py *)

API_KEY == "s3cret"
PUT_EXPIRY == 300

\* the x-api-key header and the clip / thumb query parameters: Null when
\* absent, else the string
HeaderValues == {Null, Str(""), Str("s3cret"), Str("S3CRET"), Str("wrong")}
ClipParams == {Null, Str(""), Str("a.avi"), Str("b.avi"), Str("cam1_20260221_120000.avi")}
ThumbParams == {Null, Str(""), Str("a_thumb.jpg"), Str("b_thumb.jpg"), Str("x.jpg")}

\* (mutant) the filename check comes before the secret check
PresignStatus_ValidateFirst(key, clip, thumb) ==
    IF ~Truthy(clip) \/ ~Truthy(thumb) THEN Response(400, "Missing clip or thumb parameter")
    ELSE IF key # Str(API_KEY) THEN Response(403, "Forbidden")
    ELSE Response(200, "urls")

\* handler, lines 26-43 and 58-62: which response the request gets
PresignStatus(key, clip, thumb) ==
    IF key # Str(API_KEY) THEN Response(403, "Forbidden")
    ELSE IF ~Truthy(clip) \/ ~Truthy(thumb) THEN Response(400, "Missing clip or thumb parameter")
    ELSE Response(200, "urls")

\* handler, lines 45-54: the two URLs of a 200
PresignUrls(clip, thumb) ==
    <<PresignedUrl("put_object", "clips/" \o clip.s, PUT_EXPIRY),
      PresignedUrl("put_object", "thumbs/" \o thumb.s, PUT_EXPIRY)>>

PresignHandler(key, clip, thumb) ==
    /\ pReq' = [key |-> key, clip |-> clip, thumb |-> thumb]
    /\ pResp' = PresignStatus(key, clip, thumb)
    /\ pUrls' = IF PresignStatus(key, clip, thumb).statusCode = 200
                THEN PresignUrls(clip, thumb) ELSE <<>>
    /\ UNCHANGED <<exists, tags, puts, manageVars, notifyVars, listVars, meta>>

-----------------------------------------------------------------------------
(* list.py *)

Digits == "0123456789"
IsDigit(c) == \E i \in 1..10 : SubSeq(Digits, i, i) = c
DigitVal(c) == (CHOOSE i \in 1..10 : SubSeq(Digits, i, i) = c) - 1
AllDigits(s) == \A i \in 1..Len(s) : IsDigit(SubSeq(s, i, i))

\* int() of a string of digits
RECURSIVE ToInt(_)
ToInt(s) ==
    IF s = "" THEN 0
    ELSE 10 * ToInt(SubSeq(s, 1, Len(s) - 1)) + DigitVal(SubSeq(s, Len(s), Len(s)))

\* n, zero-padded to w digits
RECURSIVE Pad(_, _)
Pad(n, w) ==
    IF w = 0 THEN ""
    ELSE Pad(n \div 10, w - 1) \o SubSeq(Digits, (n % 10) + 1, (n % 10) + 1)

IsLeap(y) == (y % 4 = 0 /\ y % 100 # 0) \/ y % 400 = 0
DaysInMonth(y, mo) ==
    IF mo = 2 THEN (IF IsLeap(y) THEN 29 ELSE 28)
    ELSE IF mo \in {4, 6, 9, 11} THEN 30 ELSE 31

\* what datetime accepts (strptime raises ValueError otherwise)
ValidDateTime(dt) ==
    /\ dt.year \in 1..9999
    /\ dt.month \in 1..12
    /\ dt.day \in 1..DaysInMonth(dt.year, dt.month)
    /\ dt.hour \in 0..23
    /\ dt.minute \in 0..59
    /\ dt.second \in 0..59

\* datetime.isoformat() of a UTC datetime with no microseconds
isoformat(dt) ==
    Pad(dt.year, 4) \o "-" \o Pad(dt.month, 2) \o "-" \o Pad(dt.day, 2) \o "T"
    \o Pad(dt.hour, 2) \o ":" \o Pad(dt.minute, 2) \o ":" \o Pad(dt.second, 2) \o "+00:00"

\* (mutant) the digits are formatted without asking the calendar
parse_timestamp_AnyDigits(name) ==
    LET n == Len(name)
        matched == /\ n >= 16
                   /\ SubSeq(name, n - 15, n - 15) = "_"
                   /\ AllDigits(SubSeq(name, n - 14, n - 7))
                   /\ SubSeq(name, n - 6, n - 6) = "_"
                   /\ AllDigits(SubSeq(name, n - 5, n))
        ymd == SubSeq(name, n - 14, n - 7)
        hms == SubSeq(name, n - 5, n)
        dt == DateTime(ToInt(SubSeq(ymd, 1, 4)), ToInt(SubSeq(ymd, 5, 6)),
                       ToInt(SubSeq(ymd, 7, 8)), ToInt(SubSeq(hms, 1, 2)),
                       ToInt(SubSeq(hms, 3, 4)), ToInt(SubSeq(hms, 5, 6)))
    IN  IF ~matched THEN "" ELSE isoformat(dt)

\* parse_timestamp: the ISO string, or "" for None
parse_timestamp(name) ==
    LET n == Len(name)
        matched == /\ n >= 16
                   /\ SubSeq(name, n - 15, n - 15) = "_"
                   /\ AllDigits(SubSeq(name, n - 14, n - 7))
                   /\ SubSeq(name, n - 6, n - 6) = "_"
                   /\ AllDigits(SubSeq(name, n - 5, n))
        ymd == SubSeq(name, n - 14, n - 7)
        hms == SubSeq(name, n - 5, n)
        dt == DateTime(ToInt(SubSeq(ymd, 1, 4)), ToInt(SubSeq(ymd, 5, 6)),
                       ToInt(SubSeq(ymd, 7, 8)), ToInt(SubSeq(hms, 1, 2)),
                       ToInt(SubSeq(hms, 3, 4)), ToInt(SubSeq(hms, 5, 6)))
    IN  IF ~matched THEN ""
        ELSE IF ValidDateTime(dt) THEN isoformat(dt) ELSE ""

\* the characters of keys and timestamps, in code point order
Alphabet == " %+-./0123456789:T_abcdefghijklmnopqrstuvwxyz"
Ord(c) == CHOOSE i \in 1..Len(Alphabet) : SubSeq(Alphabet, i, i) = c

\* a < b for Python strings (and for S3's key order)
RECURSIVE StrLess(_, _)
StrLess(a, b) ==
    IF b = "" THEN FALSE
    ELSE IF a = "" THEN TRUE
    ELSE IF SubSeq(a, 1, 1) # SubSeq(b, 1, 1) THEN Ord(SubSeq(a, 1, 1)) < Ord(SubSeq(b, 1, 1))
    ELSE StrLess(SubSeq(a, 2, Len(a)), SubSeq(b, 2, Len(b)))

\* round(n / d, 0) as Python rounds a float that is exact: half to even
RoundHalfEven(n, d) ==
    LET q == n \div d
        r == n % d
    IN  IF 2 * r < d THEN q
        ELSE IF 2 * r > d THEN q + 1
        ELSE IF q % 2 = 0 THEN q ELSE q + 1

\* round(Size / 1_048_576, 2), in hundredths of a megabyte
size_mb(size) == RoundHalfEven(size * 100, 1048576)

\* the keys a set holds, in S3's listing order
RECURSIVE SortedKeys(_)
SortedKeys(S) ==
    IF S = {} THEN <<>>
    ELSE LET least == CHOOSE k \in S : \A o \in S \ {k} : StrLess(k, o)
         IN  <<least>> \o SortedKeys(S \ {least})

\* list_objects_v2(Prefix, MaxKeys, ContinuationToken): the keys under the
\* prefix that follow the token, in order
Listing(prefix, token) ==
    SortedKeys({k \in exists : StartsWith(k, prefix) /\ (token = "" \/ StrLess(token, k))})

FirstN(seq, n) == SubSeq(seq, 1, Min(n, Len(seq)))

NoUrl == [method |-> "", Key |-> "", ExpiresIn |-> 0]
NoCall == Call("", <<>>, "")

\* (mutant) any keep tag counts, whatever its value
Kept_AnyValue(tagset) == \E t \in tagset : t.Key = "keep"

\* lines 93-96: any(t['Key'] == 'keep' and t['Value'] == 'true' ...)
Kept(tagset) == \E t \in tagset : t.Key = "keep" /\ t.Value = "true"

\* clips.sort(key=timestamp, reverse=True): stable, equal keys keep their order
RECURSIVE InsertNewestFirst(_, _)
InsertNewestFirst(sorted, c) ==
    IF sorted = <<>> THEN <<c>>
    ELSE IF StrLess(Head(sorted).timestamp, c.timestamp)
        THEN <<c>> \o sorted
    ELSE <<Head(sorted)>> \o InsertNewestFirst(Tail(sorted), c)

\* (mutant) the records are returned in the order they were listed
SortNewestFirst_AsListed(clips) == clips

RECURSIVE SortNewestFirst(_)
SortNewestFirst(clips) ==
    IF clips = <<>> THEN <<>>
    ELSE InsertNewestFirst(SortNewestFirst(SubSeq(clips, 1, Len(clips) - 1)),
                           clips[Len(clips)])

ListInvoke ==
    /\ lPc = "idle"
    /\ lCount < MaxList
    /\ lCount' = lCount + 1
    /\ lPc' = "list_objects_v2"
    /\ lToken' = ""
    /\ lMore' = FALSE
    /\ lPage' = <<>>
    /\ lPos' = 1
    /\ lThumb' = NoUrl
    /\ lCall' = NoCall
    /\ lClips' = <<>>
    /\ lResp' = NoResponse
    /\ lBody' = <<>>
    /\ lDirty' = FALSE
    /\ UNCHANGED <<exists, tags, meta, puts, manageVars, notifyVars, presignVars>>

\* (mutant) the paginator stops after the first page
ListPage_FirstPageOnly(ok) ==
    /\ lPc = "list_objects_v2"
    /\ IF ok
       THEN LET rest == Listing("clips/", lToken)
                page == FirstN(rest, PageSize)
            IN  /\ lPage' = [i \in 1..Len(page) |->
                               [Key |-> page[i], Size |-> meta[page[i]].Size,
                                LastModified |-> meta[page[i]].LastModified]]
                /\ lMore' = FALSE
                /\ lToken' = IF page = <<>> THEN lToken ELSE page[Len(page)]
                /\ lPos' = 1
                /\ lPc' = "object"
                /\ lResp' = lResp
       ELSE /\ lPc' = "raised"
            /\ lResp' = Unhandled("ClientError")
            /\ UNCHANGED <<lPage, lMore, lToken, lPos>>
    /\ lCall' = Call("list_objects_v2", <<lToken>>, IF ok THEN "ok" ELSE "ClientError")
    /\ UNCHANGED <<exists, tags, meta, puts, lThumb, lClips, lBody, lDirty, lCount,
                   manageVars, notifyVars, presignVars>>

\* lines 52-57: the paginator fetches the next page; a failed request raises
\* out of the handler
ListPage(ok) ==
    /\ lPc = "list_objects_v2"
    /\ IF ok
       THEN LET rest == Listing("clips/", lToken)
                page == FirstN(rest, PageSize)
            IN  /\ lPage' = [i \in 1..Len(page) |->
                               [Key |-> page[i], Size |-> meta[page[i]].Size,
                                LastModified |-> meta[page[i]].LastModified]]
                /\ lMore' = (Len(rest) > PageSize)
                /\ lToken' = IF page = <<>> THEN lToken ELSE page[Len(page)]
                /\ lPos' = 1
                /\ lPc' = "object"
                /\ lResp' = lResp
       ELSE /\ lPc' = "raised"
            /\ lResp' = Unhandled("ClientError")
            /\ UNCHANGED <<lPage, lMore, lToken, lPos>>
    /\ lCall' = Call("list_objects_v2", <<lToken>>, IF ok THEN "ok" ELSE "ClientError")
    /\ UNCHANGED <<exists, tags, meta, puts, lThumb, lClips, lBody, lDirty, lCount,
                   manageVars, notifyVars, presignVars>>

\* lines 58-61 and 109-116: the head of the inner loop; past the last object
\* of the last page the handler sorts what it collected and returns it
ListObject ==
    /\ lPc = "object"
    /\ IF lPos > Len(lPage)
       THEN IF lMore
            THEN lPc' = "list_objects_v2" /\ UNCHANGED <<lPos, lResp, lBody>>
            ELSE /\ lPc' = "done"
                 /\ lBody' = SortNewestFirst(lClips)
                 /\ lResp' = Response(200, "clips")
                 /\ lPos' = lPos
       ELSE /\ lPc' = IF EndsWith(lPage[lPos].Key, ".avi") THEN "head_object" ELSE "object"
            /\ lPos' = IF EndsWith(lPage[lPos].Key, ".avi") THEN lPos ELSE lPos + 1
            /\ UNCHANGED <<lResp, lBody>>
    /\ UNCHANGED <<exists, tags, meta, puts, lToken, lMore, lPage, lThumb, lCall, lClips,
                   lDirty, lCount, manageVars, notifyVars, presignVars>>

\* the thumbnail key list.py derives, lines 63-74
ListThumbKey(key) ==
    "thumbs/" \o SliceFromTo(key, Len("clips/"), Len(".avi")) \o "_thumb.jpg"

\* (mutant) only a thumbnail that is not there is passed over; any other
\* error of the probe escapes the handler
ListHeadObject_Raise(ok) ==
    /\ lPc = "head_object"
    /\ LET tk == ListThumbKey(lPage[lPos].Key)
       IN  /\ lThumb' = IF ok /\ tk \in exists
                         THEN PresignedUrl("get_object", tk, GET_EXPIRY) ELSE NoUrl
           /\ lCall' = Call("head_object", <<tk>>,
                             IF ok /\ tk \in exists THEN "ok"
                             ELSE IF tk \in exists THEN "ClientError" ELSE "404")
           /\ lPc' = IF ~ok /\ tk \in exists THEN "raised" ELSE "get_object_tagging"
           /\ lResp' = IF ~ok /\ tk \in exists THEN Unhandled("ClientError") ELSE lResp
    /\ UNCHANGED <<exists, tags, meta, puts, lToken, lMore, lPage, lPos, lClips,
                   lBody, lDirty, lCount, manageVars, notifyVars, presignVars>>

\* lines 73-84: the probe of the thumbnail; any ClientError leaves thumb_url None
ListHeadObject(ok) ==
    /\ lPc = "head_object"
    /\ LET tk == ListThumbKey(lPage[lPos].Key)
       IN  /\ lThumb' = IF ok /\ tk \in exists
                         THEN PresignedUrl("get_object", tk, GET_EXPIRY) ELSE NoUrl
           /\ lCall' = Call("head_object", <<tk>>,
                             IF ok /\ tk \in exists THEN "ok"
                             ELSE IF tk \in exists THEN "ClientError" ELSE "404")
    /\ lPc' = "get_object_tagging"
    /\ UNCHANGED <<exists, tags, meta, puts, lToken, lMore, lPage, lPos, lClips, lResp,
                   lBody, lDirty, lCount, manageVars, notifyVars, presignVars>>

\* lines 86-107: the timestamp, the tag read (any ClientError leaves kept
\* False) and the record
ListGetTagging(ok) ==
    /\ lPc = "get_object_tagging"
    /\ LET obj == lPage[lPos]
           key == obj.Key
           name == SliceFromTo(key, Len("clips/"), Len(".avi"))
           parsed == parse_timestamp(name)
           ts == IF parsed # "" THEN parsed ELSE isoformat(obj.LastModified)
           read == ok /\ key \in exists
           kept == IF read THEN Kept(tags[key]) ELSE FALSE
       IN  /\ lClips' = Append(lClips,
                  [clip_key |-> key,
                   clip_url |-> PresignedUrl("get_object", key, GET_EXPIRY),
                   thumb_url |-> lThumb,
                   timestamp |-> ts,
                   size_mb |-> size_mb(obj.Size),
                   kept |-> kept])
           /\ lCall' = Call("get_object_tagging", <<key>>, IF read THEN "ok" ELSE "ClientError")
    /\ lThumb' = NoUrl
    /\ lPos' = lPos + 1
    /\ lPc' = "object"
    /\ UNCHANGED <<exists, tags, meta, puts, lToken, lMore, lPage, lResp, lBody, lDirty,
                   lCount, manageVars, notifyVars, presignVars>>

ListReturn ==
    /\ lPc \in {"done", "raised"}
    /\ lPc' = "idle"
    /\ lToken' = ""
    /\ lMore' = FALSE
    /\ lPage' = <<>>
    /\ lPos' = 1
    /\ lThumb' = NoUrl
    /\ lCall' = NoCall
    /\ lClips' = <<>>
    /\ lResp' = NoResponse
    /\ lBody' = <<>>
    /\ UNCHANGED <<exists, tags, meta, puts, lDirty, lCount, manageVars, notifyVars, presignVars>>

-----------------------------------------------------------------------------
(* Retention Manager racing the device's uploads *)

InitBucket ==
    /\ exists \in SUBSET CoreKeys
    /\ tags = NoTags
    /\ meta = [k \in Keys |-> IF k \in exists THEN FirstUpload ELSE NoMeta]
    /\ puts = 0

InitManage ==
    /\ mPc = "idle"
    /\ mReq = NoBody
    /\ mObjects = <<>>
    /\ mCalls = <<>>
    /\ mResp = NoResponse
    /\ mCount = 0

InitList ==
    /\ lPc = "idle"
    /\ lToken = ""
    /\ lMore = FALSE
    /\ lPage = <<>>
    /\ lPos = 1
    /\ lThumb = NoUrl
    /\ lCall = NoCall
    /\ lClips = <<>>
    /\ lResp = NoResponse
    /\ lBody = <<>>
    /\ lDirty = FALSE
    /\ lCount = 0

InitPresign ==
    /\ pReq = [key |-> Null, clip |-> Null, thumb |-> Null]
    /\ pResp = NoResponse
    /\ pUrls = <<>>

Init == InitBucket /\ InitManage /\ InitNotify /\ InitPresign /\ InitList

NextManage ==
    \/ \E k \in CoreKeys, m \in Uploads : DevicePut(k, m)
    \/ \E body \in Bodies : ManageInvoke(body)
    \/ \E ok \in BOOLEAN : ManageSetKeepTag(ok)
    \/ \E ok \in BOOLEAN : ManageHeadObject(ok)
    \/ \E ok \in BOOLEAN : ManageDeleteObjects(ok)
    \/ ManageReturn

SpecManage == Init /\ [][NextManage]_vars

(* Ingest Notifier *)

NextNotify ==
    \/ \E batch \in Batches : NotifyInvoke(batch)
    \/ NotifyRecord
    \/ \E ok \in BOOLEAN : NotifySendEmail(ok)
    \/ \E ok \in BOOLEAN : NotifyTag(ok)
    \/ NotifyReturn

\* the notifier touches clips only: the bucket starts with any of them
InitNotifyBucket ==
    /\ exists \in SUBSET {"clips/a.avi", "clips/b.avi"}
    /\ tags = NoTags
    /\ meta = [k \in Keys |-> IF k \in exists THEN FirstUpload ELSE NoMeta]
    /\ puts = 0

InitN == InitNotifyBucket /\ InitManage /\ InitNotify /\ InitPresign /\ InitList

SpecNotify == InitN /\ [][NextNotify]_vars


(* Upload Authorizer *)

NextPresign ==
    \E key \in HeaderValues, clip \in ClipParams, thumb \in ThumbParams :
        PresignHandler(key, clip, thumb)

SpecPresign == Init /\ [][NextPresign]_vars

(* Gallery Lister, with the device uploading meanwhile *)

\* tag sets a clip may carry when a listing starts
TagSets ==
    {{}, {Tag("keep", "true")}, {Tag("keep", "false")}, {Tag("keep", "True")},
     {Tag("kept", "true")}, {Tag("keep", "true"), Tag("owner", "me")}}

IsClipKey(k) == StartsWith(k, "clips/") /\ EndsWith(k, ".avi")

InitListBucket ==
    /\ exists \in SUBSET ListKeys
    /\ \E t \in [{k \in ListKeys : IsClipKey(k)} -> TagSets] :
          /\ t["clips/b.avi"] \in {{}, {Tag("keep", "true")}}
          /\ tags = [k \in Keys |-> IF k \in DOMAIN t /\ k \in exists THEN t[k] ELSE {}]
    /\ meta = [k \in Keys |-> IF k \in exists THEN FirstUpload ELSE NoMeta]
    /\ puts = 0

InitL == InitListBucket /\ InitManage /\ InitNotify /\ InitPresign /\ InitList

ListUploads == {"clips/b.avi", "thumbs/a_thumb.jpg"}

NextList ==
    \/ ListInvoke
    \/ \E ok \in BOOLEAN : ListPage(ok)
    \/ ListObject
    \/ \E ok \in BOOLEAN : ListHeadObject(ok)
    \/ \E ok \in BOOLEAN : ListGetTagging(ok)
    \/ ListReturn
    \/ \E k \in ListUploads, m \in Uploads : puts < MaxListPuts /\ DevicePut(k, m)

SpecList == InitL /\ [][NextList]_vars

(* Gallery Lister over clips named with and without a timestamp *)

\* untagged clips, each uploaded at one of two times
InitNamesBucket ==
    /\ exists \in SUBSET NameKeys
    /\ tags = NoTags
    /\ \E m \in [NameKeys -> {FirstUpload} \cup Uploads] :
          meta = [k \in Keys |-> IF k \in exists THEN m[k] ELSE NoMeta]
    /\ puts = 0

InitNames == InitNamesBucket /\ InitManage /\ InitNotify /\ InitPresign /\ InitList

SpecListNames == InitNames /\ [][NextList]_vars

(* Retention Manager deleting while the Gallery Lister lists *)

InitPairBucket ==
    /\ exists \in SUBSET PairKeys
    /\ tags = NoTags
    /\ meta = [k \in Keys |-> IF k \in exists THEN FirstUpload ELSE NoMeta]
    /\ puts = 0

InitPairs == InitPairBucket /\ InitManage /\ InitNotify /\ InitPresign /\ InitList

\* delete requests for the clips of PairKeys
DeleteBodies ==
    {Body("object", Str("delete"), Str("clips/" \o b \o ".avi")) : b \in PairBasenames}

NextPairs ==
    \/ \E body \in DeleteBodies : ManageInvoke(body)
    \/ \E ok \in BOOLEAN : ManageHeadObject(ok)
    \/ \E ok \in BOOLEAN : ManageDeleteObjects(ok)
    \/ ManageReturn
    \/ ListInvoke
    \/ \E ok \in BOOLEAN : ListPage(ok)
    \/ ListObject
    \/ \E ok \in BOOLEAN : ListHeadObject(ok)
    \/ \E ok \in BOOLEAN : ListGetTagging(ok)
    \/ ListReturn

SpecPairs == InitPairs /\ [][NextPairs]_vars

(* Retention Manager, Ingest Notifier and the device on one clip *)

RaceClip == "clips/a.avi"
RaceKeys == {RaceClip, thumb_key(RaceClip)}

\* a clip may carry a tag that none of the handlers wrote
InitRaceBucket ==
    /\ exists \in SUBSET RaceKeys
    /\ \E t \in {{}, {Tag("owner", "me")}} :
          tags = [k \in Keys |-> IF k = RaceClip /\ k \in exists THEN t ELSE {}]
    /\ meta = [k \in Keys |-> IF k \in exists THEN FirstUpload ELSE NoMeta]
    /\ puts = 0

InitRace == InitRaceBucket /\ InitManage /\ InitNotify /\ InitPresign /\ InitList

\* the three actions on the clip
RaceBodies == {Body("object", Str(a), Str(RaceClip)) : a \in {"keep", "unkeep", "delete"}}

\* notifications for the clip, delivered once or again
RaceBatches == UNION {[1..n -> {RaceClip}] : n \in 1..MaxBatch}

NextRace ==
    \/ \E k \in RaceKeys, m \in Uploads : puts < MaxRacePuts /\ DevicePut(k, m)
    \/ \E body \in RaceBodies : ManageInvoke(body)
    \/ \E ok \in BOOLEAN : ManageSetKeepTag(ok)
    \/ \E ok \in BOOLEAN : ManageHeadObject(ok)
    \/ \E ok \in BOOLEAN : ManageDeleteObjects(ok)
    \/ ManageReturn
    \/ \E batch \in RaceBatches : NotifyInvoke(batch)
    \/ NotifyRecord
    \/ \E ok \in BOOLEAN : NotifySendEmail(ok)
    \/ \E ok \in BOOLEAN : NotifyTag(ok)
    \/ NotifyReturn

SpecRace == InitRace /\ [][NextRace]_vars

-----------------------------------------------------------------------------
(* Claims about the Ingest Notifier *)

NotifyOver == nPc \in {"done", "raised"}

\* the decoded keys of the records that end in '.avi', in batch order
RECURSIVE AviKeys(_)
AviKeys(batch) ==
    IF batch = <<>> THEN <<>>
    ELSE LET key == unquote_plus(Head(batch))
         IN  (IF EndsWith(key, ".avi") THEN <<key>> ELSE <<>>) \o AviKeys(Tail(batch))

\* the keys of this invocation's calls of `op`, in call order
RECURSIVE CallKeys(_, _)
CallKeys(calls, op) ==
    IF calls = <<>> THEN <<>>
    ELSE (IF Head(calls).op = op THEN Head(calls).keys ELSE <<>>) \o CallKeys(Tail(calls), op)

AllCallsOk == \A i \in 1..Len(nCalls) : nCalls[i].result = "ok"

\* C3: when an invocation is over, every record whose key ends in '.avi' has
\* had its email send attempted, whether or not a call failed on some record.
C3_BatchIndependence ==
    NotifyOver => CallKeys(nCalls, "send_email") = AviKeys(nBatch)

\* C4: an invocation that ends without a service failure has sent one email
\* and made one tag write per record whose decoded key ends in '.avi', for
\* those keys and in batch order, and the emails are the last ones SES holds.
C4_FilterAndCount ==
    (nPc = "done" /\ AllCallsOk)
        => LET avi == AviKeys(nBatch)
               n == Len(avi)
           IN  /\ CallKeys(nCalls, "send_email") = avi
               /\ CallKeys(nCalls, "put_object_tagging") = avi
               /\ Len(nCalls) = 2 * n
               /\ Len(outbox) >= n
               /\ \A i \in 1..n : outbox[Len(outbox) - n + i].view_url.Key = avi[i]

C4_Witness ==
    /\ nPc = "done"
    /\ nBatch = <<"clips/a%2Eavi", "clips/n.txt">>
    /\ AllCallsOk
    /\ Len(outbox) = 1
    /\ Len(nCalls) = 2
    /\ tags["clips/a.avi"] = {Tag("keep", "false")}

\* C5: a tag write is made only right after the email of the same key was
\* sent; a tag write that fails is made once, leaves the sent emails and the
\* bucket as they were, and the loop moves to the next record.
C5_EmailThenBestEffortTag ==
    [][(nPc = "put_object_tagging" /\ nPc' # nPc)
       => LET key == unquote_plus(nBatch[nIdx])
              last == nCalls[Len(nCalls)]
              call == nCalls'[Len(nCalls')]
          IN  /\ last = Call("send_email", <<key>>, "ok")
              /\ outbox[Len(outbox)].view_url.Key = key
              /\ Len(nCalls') = Len(nCalls) + 1
              /\ call.op = "put_object_tagging" /\ call.keys = <<key>>
              /\ call.result # "ok" =>
                    /\ outbox' = outbox
                    /\ tags' = tags /\ exists' = exists
                    /\ nPc' = "record" /\ nIdx' = nIdx + 1 /\ nBatch' = nBatch]_vars

C5_Witness ==
    /\ nPc = "send_email"
    /\ nIdx = 2
    /\ nBatch = <<"clips/a.avi", "clips/b.avi">>
    /\ Len(outbox) = 1
    /\ nCalls = <<Call("send_email", <<"clips/a.avi">>, "ok"),
                  Call("put_object_tagging", <<"clips/a.avi">>, "ClientError")>>
    /\ "clips/a.avi" \in exists
    /\ tags["clips/a.avi"] = {}

-----------------------------------------------------------------------------
(* Claims about the Upload Authorizer *)

Handled == pResp # NoResponse
Present(v) == v # Null
PutUrls(clip, thumb) ==
    <<[method |-> "put_object", Key |-> "clips/" \o clip, ExpiresIn |-> 5 * 60],
      [method |-> "put_object", Key |-> "thumbs/" \o thumb, ExpiresIn |-> 5 * 60]>>

\* C7: URLs are issued exactly when the secret matches and both
\* parameters are present; 403 on a wrong or absent secret whatever the
\* parameters, 400 on a right secret with a parameter missing, else 200 with
\* the two 5-minute PUT URLs.
C7_GatingByPresence ==
    Handled =>
        LET authorized == pReq.key = Str("s3cret")
            named == Present(pReq.clip) /\ Present(pReq.thumb)
        IN  /\ (pUrls # <<>>) <=> (authorized /\ named)
            /\ ~authorized => (pResp.statusCode = 403 /\ pUrls = <<>>)
            /\ (authorized /\ ~named) => (pResp.statusCode = 400 /\ pUrls = <<>>)
            /\ (authorized /\ named) =>
                  (pResp.statusCode = 200 /\ pUrls = PutUrls(pReq.clip.s, pReq.thumb.s))

\* C7, with a parameter counted as given only when it is present and not
\* empty: otherwise as above.
C7_GatingByNonEmpty ==
    Handled =>
        LET authorized == pReq.key = Str("s3cret")
            named == /\ Present(pReq.clip) /\ pReq.clip.s # ""
                     /\ Present(pReq.thumb) /\ pReq.thumb.s # ""
        IN  /\ (pUrls # <<>>) <=> (authorized /\ named)
            /\ ~authorized => (pResp.statusCode = 403 /\ pUrls = <<>>)
            /\ (authorized /\ ~named) => (pResp.statusCode = 400 /\ pUrls = <<>>)
            /\ (authorized /\ named) =>
                  (pResp.statusCode = 200 /\ pUrls = PutUrls(pReq.clip.s, pReq.thumb.s))

C7_Witness ==
    /\ pReq = [key |-> Str("wrong"), clip |-> Null, thumb |-> Str("a_thumb.jpg")]
    /\ pResp.statusCode = 403
    /\ pUrls = <<>>

-----------------------------------------------------------------------------
(* Claims about the Gallery Lister *)

ListedKeys == {lBody[i].clip_key : i \in 1..Len(lBody)}
ClipsInBucket == {k \in exists : StartsWith(k, "clips/") /\ EndsWith(k, ".avi")}

\* C9: a listing that returns while the bucket has not changed since it began
\* holds exactly one record per object under clips/ whose key ends in .avi,
\* and no other record, however many pages the listing took.
C9_ListingComplete ==
    (lPc = "done" /\ ~lDirty)
        => /\ lResp.statusCode = 200
           /\ ListedKeys = ClipsInBucket
           /\ Len(lBody) = Cardinality(ClipsInBucket)

\* three clips and one other object under clips/: more than one page
C9_Witness ==
    /\ lPc = "done"
    /\ ~lDirty
    /\ Len(lBody) = 3
    /\ {"clips/a.avi", "clips/b.avi", "clips/c_20260221_120000.avi", "clips/n.txt"} \subseteq exists
    /\ lToken = "clips/n.txt"

\* C10: the record a clip gets has kept = true exactly when its tag read
\* succeeded and the tag set holds keep with the value 'true'; no tags, any
\* other value, or a failed tag read give kept = false.
C10_KeptDecode ==
    [][(lPc = "get_object_tagging" /\ lPc' # lPc)
       => LET key == lPage[lPos].Key
              rec == lClips'[Len(lClips')]
          IN  /\ rec.clip_key = key
              /\ lCall'.op = "get_object_tagging"
              /\ rec.kept <=> (lCall'.result = "ok" /\ [Key |-> "keep", Value |-> "true"] \in tags[key])]_vars

C10_Witness ==
    /\ lPc = "done"
    /\ ~lDirty
    /\ tags["clips/a.avi"] = {Tag("keep", "true"), Tag("owner", "me")}
    /\ tags["clips/b.avi"] = {Tag("keep", "true")}
    /\ tags["clips/c_20260221_120000.avi"] = {Tag("keep", "True")}
    /\ \E i, j, k \in 1..Len(lBody) :
          /\ lBody[i].clip_key = "clips/a.avi" /\ lBody[i].kept
          /\ lBody[j].clip_key = "clips/b.avi" /\ ~lBody[j].kept
          /\ lBody[k].clip_key = "clips/c_20260221_120000.avi" /\ ~lBody[k].kept

\* the calendar fields an ISO 8601 timestamp string stands for
TimeFields(ts) ==
    <<ToInt(SubSeq(ts, 1, 4)), ToInt(SubSeq(ts, 6, 7)), ToInt(SubSeq(ts, 9, 10)),
      ToInt(SubSeq(ts, 12, 13)), ToInt(SubSeq(ts, 15, 16)), ToInt(SubSeq(ts, 18, 19))>>

RECURSIVE TupleLess(_, _)
TupleLess(a, b) ==
    IF a = <<>> \/ b = <<>> THEN FALSE
    ELSE IF Head(a) # Head(b) THEN Head(a) < Head(b)
    ELSE TupleLess(Tail(a), Tail(b))

\* the instant of timestamp a is before the instant of timestamp b
Earlier(a, b) == TupleLess(TimeFields(a), TimeFields(b))

DistinctTimestamps(recs) ==
    \A i, j \in 1..Len(recs) : i # j => recs[i].timestamp # recs[j].timestamp

\* C11: a listing whose clips have distinct timestamps returns every record
\* it collected, each no earlier in time than the record that follows it,
\* whether a timestamp came from the file name or from LastModified.
C11_NewestFirst ==
    (lPc = "done" /\ DistinctTimestamps(lClips))
        => /\ Len(lBody) = Len(lClips)
           /\ Range(lBody) = Range(lClips)
           /\ \A i \in 1..(Len(lBody) - 1) :
                  ~Earlier(lBody[i].timestamp, lBody[i + 1].timestamp)

\* three clips listed middle, oldest, newest: a parsed name, LastModified
\* and LastModified
C11_Witness ==
    /\ lPc = "done"
    /\ Len(lClips) = 3
    /\ DistinctTimestamps(lClips)
    /\ lClips[1].clip_key = "clips/cam1_20260221_120000.avi"
    /\ lClips[2].clip_key = "clips/cam1_bad_data.avi"
    /\ lClips[3].clip_key = "clips/d_20261321_120000.avi"
    /\ lBody = <<lClips[3], lClips[1], lClips[2]>>

\* what the timestamp of a listed object is to be: the instant its name
\* carries, or else its LastModified, written out
ExpectedTimestamp(obj) ==
    IF obj.Key = "clips/cam1_20260221_120000.avi" THEN "2026-02-21T12:00:00+00:00"
    ELSE IF obj.LastModified = DateTime(2026, 2, 20, 9, 5, 7) THEN "2026-02-20T09:05:07+00:00"
    ELSE "2026-03-01T18:30:00+00:00"

\* C18: the record of a listed clip carries the UTC instant of the trailing
\* _YYYYMMDD_HHMMSS of its name when the name has one that is a date and
\* time of the calendar, and otherwise the object's LastModified; a name
\* without the suffix, with month 13 or with 29 February 2026 gets its
\* record like any other.
C18_TimestampFallback ==
    [][(lPc = "get_object_tagging" /\ lPc' # lPc)
       => LET rec == lClips'[Len(lClips')]
          IN  /\ Len(lClips') = Len(lClips) + 1
              /\ rec.clip_key = lPage[lPos].Key
              /\ rec.timestamp = ExpectedTimestamp(lPage[lPos])
              /\ lPc' = "object"]_vars

\* a listing that returned the four clips: one timestamp from the name,
\* three from LastModified
C18_Witness ==
    /\ lPc = "done"
    /\ lResp.statusCode = 200
    /\ Len(lBody) = 4
    /\ \E i, j, k, l \in 1..4 :
          /\ lBody[i] = [lBody[i] EXCEPT !.clip_key = "clips/cam1_20260221_120000.avi",
                                         !.timestamp = "2026-02-21T12:00:00+00:00"]
          /\ lBody[j] = [lBody[j] EXCEPT !.clip_key = "clips/cam1_bad_data.avi",
                                         !.timestamp = "2026-02-20T09:05:07+00:00"]
          /\ lBody[k] = [lBody[k] EXCEPT !.clip_key = "clips/d_20261321_120000.avi",
                                         !.timestamp = "2026-03-01T18:30:00+00:00"]
          /\ lBody[l] = [lBody[l] EXCEPT !.clip_key = "clips/e_20260229_120000.avi",
                                         !.timestamp = "2026-02-20T09:05:07+00:00"]

\* the basename of a clip key, found by search: the b with clips/<b>.avi = key
BasenameOf(key) == CHOOSE b \in PairBasenames : "clips/" \o b \o ".avi" = key

\* the key a head_object call recorded in call probed
Probed(call) == call.keys[1]

\* C12: for a clip key clips/<basename>.avi, the thumbnail key the Retention
\* Manager probes and the one the Gallery Lister probes are both
\* thumbs/<basename>_thumb.jpg, whatever the bucket holds, and stripping
\* thumbs/ and _thumb.jpg from it gives the basename back.
C12_ThumbKeyDerivation ==
    /\ (mCalls # <<>> /\ mCalls[1].op = "head_object")
          => LET b == BasenameOf(mReq.clip_key.s)
                 tk == Probed(mCalls[1])
             IN  /\ tk = "thumbs/" \o b \o "_thumb.jpg"
                 /\ SliceFromTo(tk, Len("thumbs/"), Len("_thumb.jpg")) = b
    /\ (lCall.op = "head_object")
          => LET b == BasenameOf(lPage[lPos].Key)
                 tk == Probed(lCall)
             IN  /\ tk = "thumbs/" \o b \o "_thumb.jpg"
                 /\ SliceFromTo(tk, Len("thumbs/"), Len("_thumb.jpg")) = b

\* both handlers have derived the thumbnail key of the same clip, whose
\* basename repeats the affixes
C12_Witness ==
    /\ mCalls # <<>>
    /\ mReq.clip_key.s = "clips/clips/x.avi.avi"
    /\ lCall.op = "head_object"
    /\ lPage[lPos].Key = "clips/clips/x.avi.avi"
    /\ Probed(lCall) = "thumbs/clips/x.avi_thumb.jpg"
    /\ Probed(mCalls[1]) = Probed(lCall)

\* C17: the probe of a clip's thumbnail asks for thumbs/<basename>_thumb.jpg;
\* the thumbnail URL is set exactly when the probe succeeded, and is null when
\* the thumbnail is missing or the probe failed otherwise; either way the
\* clip's record is appended with that URL, and the listing that ends answers
\* 200 with every record it appended.
C17_ThumbnailPairing ==
    [][/\ (lPc = "head_object" /\ lPc' # lPc)
          => /\ lCall'.op = "head_object"
             /\ (lThumb' # NoUrl) <=> (lCall'.result = "ok")
             /\ lCall'.result = "ok"
                   => lThumb' = PresignedUrl("get_object", Probed(lCall'), GET_EXPIRY)
             /\ lPc' = "get_object_tagging"
       /\ (lPc = "get_object_tagging" /\ lPc' # lPc)
          => /\ Len(lClips') = Len(lClips) + 1
             /\ lClips'[Len(lClips')].clip_key = lPage[lPos].Key
             /\ lClips'[Len(lClips')].thumb_url = lThumb
       /\ (lPc = "object" /\ lPc' \notin {"object", "head_object", "list_objects_v2"})
          => /\ lResp'.statusCode = 200
             /\ Len(lBody') = Len(lClips)
             /\ Range(lBody') = Range(lClips)]_vars

\* in an unchanged bucket holding a's thumbnail and not b's, the listing
\* returns both clips without a thumbnail URL: one probe failed, the other
\* found nothing
C17_Witness ==
    /\ lPc = "done" /\ ~lDirty
    /\ lResp.statusCode = 200
    /\ "thumbs/a_thumb.jpg" \in exists
    /\ \E i, j \in 1..Len(lBody) :
          /\ lBody[i].clip_key = "clips/a.avi" /\ lBody[i].thumb_url = NoUrl
          /\ lBody[j].clip_key = "clips/b.avi" /\ lBody[j].thumb_url = NoUrl

-----------------------------------------------------------------------------
(* Claims about the Retention Manager *)

ThreeActions == {Str("keep"), Str("unkeep"), Str("delete")}

\* the requests C1 speaks of: a field is missing, the key is not clips/*.avi,
\* or the action is none of the three
FailsValidation(body) ==
    \/ body.kind # "object"
    \/ body.action = Null
    \/ body.clip_key = Null
    \/ ~(/\ body.clip_key.t = "str"
         /\ StartsWith(body.clip_key.s, "clips/")
         /\ EndsWith(body.clip_key.s, ".avi"))
    \/ body.action \notin ThreeActions

\* C1: every request that fails validation is answered 400 and makes no
\* storage call.
C1_InvalidRequestIs400 ==
    (mPc = "done" /\ FailsValidation(mReq))
        => (mResp.statusCode = 400 /\ mCalls = <<>>)

IsDelete == mPc = "delete_objects" /\ mPc' = "done"
ProbeResult == mCalls[1].result

\* C2: a delete that removes a clip and returns 200 leaves no thumbnail at
\* the derived key, whatever the device uploads meanwhile (stated here for
\* the deletes whose existence probe was answered by the service).
C2_ThumbnailFollowsClip ==
    [][(/\ IsDelete
        /\ ProbeResult # "ClientError"
        /\ mReq.clip_key.s \in exists
        /\ mResp'.statusCode = 200)
       => thumb_key(mReq.clip_key.s) \notin exists']_vars

\* C6: a delete whose probe found no thumbnail names only the clip key in its
\* batched delete; when the service performs it, only the clip object goes,
\* every other object and tag set stays, and the answer is 200; the answer is
\* not 200 only when the batched delete itself failed.
C6_DeleteWithoutThumbnail ==
    [][(IsDelete /\ ProbeResult = "404")
       => LET key == mReq.clip_key.s
              del == mCalls'[2]
          IN  /\ del.op = "delete_objects" /\ del.keys = <<key>>
              /\ (mResp'.statusCode = 200) <=> (del.result = "ok")
              /\ del.result = "ok" =>
                    /\ exists' = exists \ {key}
                    /\ \A k \in Keys \ {key} : tags'[k] = tags[k] /\ meta'[k] = meta[k]
              /\ del.result # "ok" => (exists' = exists /\ tags' = tags /\ meta' = meta)]_vars

C6_Witness ==
    /\ mPc = "done"
    /\ mReq.clip_key.s = "clips/a.avi"
    /\ Len(mCalls) = 2
    /\ mCalls[1].result = "404"
    /\ mCalls[2].result = "ok"
    /\ mResp = Response(200, "ok")
    /\ exists = {"clips/b.avi", "thumbs/b_thumb.jpg"}
    /\ tags["clips/b.avi"] = {Tag("keep", "true")}

\* C8: for a valid request, a storage call that failed makes the answer 500,
\* and the answer is 200 only when every storage call succeeded (a probe that
\* finds no thumbnail is not a failure).
C8_FailureIs500 ==
    (mPc = "done" /\ Validate(mReq) = Proceed)
        => /\ (\E i \in 1..Len(mCalls) : mCalls[i].result = "ClientError")
                => mResp.statusCode = 500
           /\ mResp.statusCode = 200
                => \A i \in 1..Len(mCalls) : mCalls[i].result \in {"ok", "404"}

-----------------------------------------------------------------------------
(* Claims about the Retention Manager and the Ingest Notifier on one clip *)

\* this step is the storage call of a manage request for action a on RaceClip
ManageActs(a) ==
    /\ mPc \in {"put_object_tagging", "delete_objects"}
    /\ mPc' = "done"
    /\ mReq.clip_key.s = RaceClip
    /\ mReq.action = Str(a)

\* this step is a tag write of the notifier
NotifyWrites == nPc = "put_object_tagging" /\ nPc' # nPc

\* this step is an upload by the device
DeviceUploads == puts' # puts

\* C13: once keep has returned 200 the clip's tag stays keep=true until an
\* unkeep or a delete of that clip, whatever the notifier does meanwhile
\* (uploads by the device set aside).
C13_KeepDurable ==
    [][(/\ Kept(tags[RaceClip])
        /\ ~ManageActs("unkeep") /\ ~ManageActs("delete")
        /\ ~DeviceUploads)
       => Kept(tags'[RaceClip])]_vars

\* this step is the tag write of a keep or an unkeep of RaceClip
ManageTags == mPc = "put_object_tagging" /\ mPc' = "done" /\ mReq.clip_key.s = RaceClip

\* C14: a keep or unkeep that is answered 200 leaves the clip's thumbnail, if
\* there is one, tagged with the same keep value as the clip.
C14_ThumbnailTagged ==
    [][(ManageTags /\ mResp'.statusCode = 200 /\ thumb_key(RaceClip) \in exists)
       => tags'[thumb_key(RaceClip)] = tags'[RaceClip]]_vars

\* the last call of a call log was answered without error
Applied(calls) == calls[Len(calls)].result = "ok"

Bucket == <<exists, tags, meta>>

\* a tag write of keep=value was applied to RaceClip in this step
WriteApplied(value) ==
    \/ ManageTags /\ Applied(mCalls') /\ KeepValue(mReq.action) = value
    \/ NotifyWrites /\ Applied(nCalls') /\ value = "false"

\* C15: a tag write that the storage service applies to an existing clip
\* leaves the clip's tag set holding exactly the value written, whatever was
\* written before and by whom; applied to a clip that already holds that
\* value it changes nothing in the bucket; and between applied writes,
\* deletes and uploads the tag does not change.
C15_LastWriteWins ==
    [][/\ \A value \in {"true", "false"} :
             WriteApplied(value)
                 => /\ tags'[RaceClip] = {Tag("keep", value)}
                    /\ tags[RaceClip] = {Tag("keep", value)} => Bucket' = Bucket
       /\ (/\ \A value \in {"true", "false"} : ~WriteApplied(value)
           /\ ~ManageActs("delete")
           /\ ~DeviceUploads)
              => tags'[RaceClip] = tags[RaceClip]]_vars

\* a keep was answered 200, and a notification delivered twice then wrote
\* keep=false twice: the last write is what the clip holds
C15_Witness ==
    /\ mCount = 1 /\ mPc = "done"
    /\ mReq.action = Str("keep") /\ mResp.statusCode = 200
    /\ Len(nCalls) = 4
    /\ nCalls[2].op = "put_object_tagging" /\ nCalls[2].result = "ok"
    /\ nCalls[4].op = "put_object_tagging" /\ nCalls[4].result = "ok"
    /\ tags[RaceClip] = {Tag("keep", "false")}
    /\ puts = 0

\* this step is a step of notify.handler
NotifySteps == notifyVars' # notifyVars

\* C16: no step of the notifier creates or deletes an object or touches the
\* tags of any key but its record's clip key; the clip's tags change only in
\* the tag write, to keep=false; and an invocation that returns has made one
\* tag write per matching record.
C16_NotifierFrame ==
    [][NotifySteps
       => /\ exists' = exists
          /\ meta' = meta
          /\ \A k \in Keys \ {RaceClip} : tags'[k] = tags[k]
          /\ tags'[RaceClip] # tags[RaceClip]
                => (NotifyWrites /\ tags'[RaceClip] = {Tag("keep", "false")})
          /\ nPc' = "done"
                => CallKeys(nCalls', "put_object_tagging") = AviKeys(nBatch')]_vars

\* a notification handled while the clip, kept by the user, and its
\* thumbnail are in the bucket
C16_Witness ==
    /\ nPc = "done"
    /\ nBatch = <<RaceClip>>
    /\ Len(nCalls) = 2 /\ Applied(nCalls)
    /\ exists = RaceKeys
    /\ tags[RaceClip] = {Tag("keep", "false")}
    /\ tags[thumb_key(RaceClip)] = {}
    /\ mReq.action = Str("keep") /\ mResp.statusCode = 200

\* C19: whenever the tag set of a key changes, it becomes empty (the object
\* was deleted or uploaded again), or exactly keep=false (written by unkeep
\* or the notifier), or exactly keep=true, and that only by a keep: no tag
\* that was there before survives a write.
C19_TagSetShape ==
    [][\A k \in Keys :
          tags'[k] # tags[k]
             => \/ tags'[k] = {} /\ (ManageActs("delete") \/ DeviceUploads)
                \/ /\ tags'[k] = {Tag("keep", "false")}
                   /\ k = RaceClip
                   /\ ManageActs("unkeep") \/ NotifyWrites
                \/ /\ tags'[k] = {Tag("keep", "true")}
                   /\ k = RaceClip
                   /\ ManageActs("keep")]_vars

\* the notifier has tagged the clip, a keep and then an unkeep were answered
\* 200: the clip holds the one tag keep=false
C19_Witness ==
    /\ mCount = 2 /\ mPc = "done"
    /\ mReq.action = Str("unkeep") /\ mResp.statusCode = 200
    /\ nPc = "done" /\ Len(nCalls) = 2 /\ Applied(nCalls)
    /\ tags[RaceClip] = {Tag("keep", "false")}
    /\ puts = 0

\* C20: no tag write of keep, unkeep or the notifier creates an object; a
\* keep or unkeep of a clip that is not in the bucket is answered 500 and
\* changes nothing in the bucket; a notifier tag write on a clip that is not
\* there changes nothing either, and the notifier goes on to the next record.
C20_NoResurrection ==
    [][/\ (ManageTags \/ NotifyWrites) => (exists' = exists /\ meta' = meta)
       /\ (ManageTags /\ RaceClip \notin exists)
             => /\ mResp'.statusCode = 500
                /\ ~Applied(mCalls')
                /\ Bucket' = Bucket
       /\ (NotifyWrites /\ RaceClip \notin exists)
             => /\ ~Applied(nCalls')
                /\ Bucket' = Bucket
                /\ nPc' = "record" /\ nIdx' = nIdx + 1]_vars

\* after an earlier manage request, a keep of the clip, which is gone, was
\* answered 500, and the notifier's tag write for it failed and the
\* invocation returned
C20_Witness ==
    /\ mCount = 2 /\ mPc = "done"
    /\ mReq.action = Str("keep") /\ mResp.statusCode = 500
    /\ nPc = "done" /\ Len(nCalls) = 2
    /\ nCalls[1].result = "ok" /\ nCalls[2].result = "ClientError"
    /\ RaceClip \notin exists
    /\ thumb_key(RaceClip) \in exists
    /\ puts = 0

====
